---- MODULE Spec2Model ----
(***************************************************************************)
(* The reliable, ordered channel of broker/detail/channel.hh: one producer *)
(* with any number of consumers, over a backend that may lose, duplicate   *)
(* and reorder messages.  The member functions of channel::producer and    *)
(* channel::consumer are operators on records; the actions below invoke    *)
(* them from a host and from the network.                                  *)
(***************************************************************************)
EXTENDS Integers, Sequences, FiniteSets, TLC

VARIABLES producer, consumer, closed, net, log, produced, nproduce, nticks,
          called, sent

vars == <<producer, consumer, closed, net, log, produced, nproduce, nticks,
          called, sent>>

(* ------------------------------ bounds --------------------------------- *)

\* produce() calls of the host, two consumers
MaxProduce == 2
\* tick() calls of the hosts, producer and consumers together, two consumers
MaxTick == 2
\* produce() calls of the host, one consumer
MaxProduceOne == 3
\* tick() calls of the hosts, producer and consumer together, one consumer
MaxTickOne == 3
\* largest sequence number in the messages handed to a component on its own
MaxSeqIn == 2
\* tick() calls on a consumer on its own
MaxTickIn == 2
\* tick() calls on a producer on its own
MaxTickProducer == 1
\* produce() calls of the host under fair scheduling
MaxProduceLive == 1
\* messages the lossy network holds at a time
MaxInFlight == 2
\* produce() calls on a producer whose heartbeat interval the host changes
MaxProduceReconfigure == 1
\* tick() calls on a producer whose heartbeat interval the host changes
MaxTickReconfigure == 3
\* stand-in for the width of alm::lamport_timestamp (2^64 in the program)
TickWrap == 8
\* stand-in for the width of the consumer's idle_ticks_ (2^8 in the program)
IdleWrap == 8

(* --------------------------- program constants -------------------------- *)

\* "Lamport timestamps start at 1"
LamportInit == 1
\* uint8_t heartbeat_interval_ of the consumer
U8 == 256

Handles == {"h1", "h2"}
\* a handle that never gets a path
Stranger == "h3"
Payloads == {"a", "b"}
\* heartbeat intervals and nack timeouts the hosts configure
HbChoices == {0, 1, 2}
NackTimeouts == {1, 2}
\* optional<Payload> without a value
None == "none"
\* addressee of a broadcast
All == "all"

(* ------------------------------ messages -------------------------------- *)

cumulative_ack(seq) == [type |-> "cumulative_ack", seq |-> seq]
nack(seqs) == [type |-> "nack", seqs |-> seqs]
handshake(first_seq, heartbeat_interval) ==
  [type |-> "handshake", first_seq |-> first_seq,
   heartbeat_interval |-> heartbeat_interval]
event(seq, content) == [type |-> "event", seq |-> seq, content |-> content]
retransmit_failed(seq) == [type |-> "retransmit_failed", seq |-> seq]
heartbeat(seq) == [type |-> "heartbeat", seq |-> seq]

\* backend_->send(this, hdl, msg) and backend_->broadcast(this, msg)
send(hdl, msg) == [to |-> hdl, msg |-> msg]
broadcast(msg) == [to |-> All, msg |-> msg]

Min(a, b) == IF a < b THEN a ELSE b
Max(a, b) == IF a > b THEN a ELSE b

\* ++ on a lamport_timestamp
NextTick(t) == (t + 1) % TickWrap

(* ============================== producer ================================ *)

path(hdl, offset, acked) ==
  [hdl |-> hdl, offset |-> offset, acked |-> acked,
   first_acked |-> LamportInit, last_acked |-> LamportInit]

producer_init(hb) ==
  [seq |-> 0, tick |-> LamportInit, last_broadcast |-> LamportInit,
   buf |-> <<>>, paths |-> <<>>, heartbeat_interval |-> hb]

\* index of the first path with this handle, 0 for paths_.end()
find_path(p, hdl) ==
  LET idx == {i \in 1..Len(p.paths) : p.paths[i].hdl = hdl}
  IN IF idx = {} THEN 0 ELSE CHOOSE i \in idx : \A j \in idx : i <= j

\* index of the first event with this sequence number, 0 for buf_.end()
find_event(p, seq) ==
  LET idx == {i \in 1..Len(p.buf) : p.buf[i].seq = seq}
  IN IF idx = {} THEN 0 ELSE CHOOSE i \in idx : \A j \in idx : i <= j

\* produce without the check for registered consumers
produce_always(p, content) ==
  LET ev == event(p.seq + 1, content)
  IN [st |-> [p EXCEPT !.seq = @ + 1,
                       !.buf = Append(@, ev),
                       !.last_broadcast = p.tick],
      out |-> <<broadcast(ev)>>]

produce(p, content) ==
  IF Len(p.paths) = 0
  THEN [st |-> p, out |-> <<>>]
  ELSE LET ev == event(p.seq + 1, content)
       IN [st |-> [p EXCEPT !.seq = @ + 1,
                            !.buf = Append(@, ev),
                            !.last_broadcast = p.tick],
           out |-> <<broadcast(ev)>>]

\* add without the check for an existing path
add_again(p, hdl) ==
  [st |-> [p EXCEPT !.paths = Append(@, path(hdl, p.seq, p.seq))],
   out |-> <<send(hdl, handshake(p.seq, p.heartbeat_interval))>>,
   err |-> "nil"]

add(p, hdl) ==
  IF find_path(p, hdl) # 0
  THEN [st |-> p, out |-> <<>>, err |-> "consumer_exists"]
  ELSE [st |-> [p EXCEPT !.paths = Append(@, path(hdl, p.seq, p.seq))],
        out |-> <<send(hdl, handshake(p.seq, p.heartbeat_interval))>>,
        err |-> "nil"]

\* The loop of handle_ack over paths_[i..]: ret is set by an early return.
RECURSIVE ack_loop(_, _, _, _, _, _)
ack_loop(paths, i, acked, hdl, seq, tick) ==
  IF i > Len(paths)
  THEN [ret |-> FALSE, paths |-> paths, acked |-> acked]
  ELSE LET x == paths[i]
       IN IF x.hdl = hdl
          THEN IF x.acked > seq
               THEN [ret |-> TRUE, paths |-> paths, acked |-> acked]
               ELSE IF x.acked = seq
                    THEN [ret |-> TRUE,
                          paths |-> [paths EXCEPT ![i].last_acked = tick],
                          acked |-> acked]
                    ELSE ack_loop([paths EXCEPT ![i].acked = seq,
                                                ![i].first_acked = tick,
                                                ![i].last_acked = tick],
                                  i + 1, acked, hdl, seq, tick)
          ELSE ack_loop(paths, i + 1, Min(x.acked, acked), hdl, seq, tick)

\* erase that takes the first event not yet acknowledged as well
erase_acked_more(buf, acked) ==
  SelectSeq(buf, LAMBDA x : x.seq > acked + 1)

\* buf_.erase(buf_.begin(), find_if(buf_.begin(), buf_.end(), not_acked))
RECURSIVE erase_acked(_, _)
erase_acked(buf, acked) ==
  IF buf # <<>> /\ ~(Head(buf).seq > acked)
  THEN erase_acked(Tail(buf), acked)
  ELSE buf

\* handle_ack that drops what this one consumer acknowledged, without the
\* minimum over the other paths
handle_ack_own(p, hdl, seq) ==
  LET r == ack_loop(p.paths, 1, seq, hdl, seq, p.tick)
  IN IF r.ret
     THEN [p EXCEPT !.paths = r.paths]
     ELSE [p EXCEPT !.paths = r.paths, !.buf = erase_acked(@, seq)]

\* handle_ack without the checks for a stale or repeated ACK
handle_ack_overwrite(p, hdl, seq) ==
  LET i == find_path(p, hdl)
  IN IF i = 0 THEN p
     ELSE [p EXCEPT !.paths[i].acked = seq,
                    !.paths[i].first_acked = p.tick,
                    !.paths[i].last_acked = p.tick]

handle_ack(p, hdl, seq) ==
  LET r == ack_loop(p.paths, 1, seq, hdl, seq, p.tick)
  IN IF r.ret
     THEN [p EXCEPT !.paths = r.paths]
     ELSE [p EXCEPT !.paths = r.paths, !.buf = erase_acked(@, r.acked)]

\* the retransmission loop of handle_nack
retransmit(p, hdl, seqs) ==
  [k \in 1..Len(seqs) |->
     LET i == find_event(p, seqs[k])
     IN IF i # 0 THEN send(hdl, p.buf[i])
                 ELSE send(hdl, retransmit_failed(seqs[k]))]

\* handle_nack that does not take the first element as an ACK
handle_nack_no_ack(p, hdl, seqs) ==
  IF seqs = <<>>
  THEN [st |-> p, out |-> <<>>]
  ELSE LET i == find_path(p, hdl)
       IN IF i = 0
          THEN [st |-> p, out |-> <<>>]
          ELSE IF seqs[1] = 0
               THEN [st |-> p,
                     out |-> <<send(hdl, handshake(p.paths[i].offset,
                                                   p.heartbeat_interval))>>]
               ELSE [st |-> p, out |-> retransmit(p, hdl, seqs)]

\* handle_nack that answers a NACK of 0 with the current sequence number
handle_nack_seq(p, hdl, seqs) ==
  IF seqs = <<>>
  THEN [st |-> p, out |-> <<>>]
  ELSE LET i == find_path(p, hdl)
       IN IF i = 0
          THEN [st |-> p, out |-> <<>>]
          ELSE IF seqs[1] = 0
               THEN [st |-> p,
                     out |-> <<send(hdl, handshake(p.seq,
                                                   p.heartbeat_interval))>>]
               ELSE LET q == handle_ack(p, hdl, seqs[1] - 1)
                    IN [st |-> q, out |-> retransmit(q, hdl, seqs)]

handle_nack(p, hdl, seqs) ==
  IF seqs = <<>>
  THEN [st |-> p, out |-> <<>>]
  ELSE LET i == find_path(p, hdl)
       IN IF i = 0
          THEN [st |-> p, out |-> <<>>]
          ELSE IF seqs[1] = 0
               THEN [st |-> p,
                     out |-> <<send(hdl, handshake(p.paths[i].offset,
                                                   p.heartbeat_interval))>>]
               ELSE LET q == handle_ack(p, hdl, seqs[1] - 1)
                    IN [st |-> q, out |-> retransmit(q, hdl, seqs)]

\* tick that forgets to store the time of its heartbeat
producer_tick_forgetful(p) ==
  LET t == NextTick(p.tick)
  IN IF p.heartbeat_interval > 0
        /\ (p.last_broadcast + p.heartbeat_interval) % TickWrap = t
     THEN [st |-> [p EXCEPT !.tick = t],
           out |-> <<broadcast(heartbeat(p.seq))>>]
     ELSE [st |-> [p EXCEPT !.tick = t], out |-> <<>>]

producer_tick(p) ==
  LET t == NextTick(p.tick)
  IN IF p.heartbeat_interval > 0
        /\ (p.last_broadcast + p.heartbeat_interval) % TickWrap = t
     THEN [st |-> [p EXCEPT !.tick = t, !.last_broadcast = t],
           out |-> <<broadcast(heartbeat(p.seq))>>]
     ELSE [st |-> [p EXCEPT !.tick = t], out |-> <<>>]

set_heartbeat_interval(p, value) == [p EXCEPT !.heartbeat_interval = value]

idle(p) == \A i \in 1..Len(p.paths) : p.paths[i].acked = p.seq

(* ============================== consumer ================================ *)

optional_event(seq, content) == [seq |-> seq, content |-> content]

consumer_init(nt) ==
  [next_seq |-> 0, last_seq |-> 0, buf |-> <<>>, tick |-> LamportInit,
   last_tick_seq |-> 0, idle_ticks |-> 0, heartbeat_interval |-> 0,
   nack_timeout |-> nt]

\* calls into the sink; seq is next_seq_ at the time of the call
consume(c, content) == [fn |-> "consume", seq |-> c.next_seq, content |-> content]
consume_nil(c) == [fn |-> "consume_nil", seq |-> c.next_seq, content |-> None]
close(c) == [fn |-> "close", seq |-> c.next_seq, content |-> None]

num_ticks(c) == (c.tick - 1) % TickWrap

bump_seq(c) ==
  LET n == c.next_seq + 1
  IN [c EXCEPT !.next_seq = n, !.last_seq = IF n > @ THEN n ELSE @]

\* The loop of try_consume_buffer.  nils counts the consume_nil calls made so
\* far by the running member function; the call number failAt returns an error
\* (failAt = 0: the backend returns no error).
RECURSIVE consume_loop(_, _, _, _)
consume_loop(c, cb, nils, failAt) ==
  IF c.buf # <<>> /\ Head(c.buf).seq = c.next_seq
  THEN IF Head(c.buf).content # None
       THEN consume_loop(bump_seq([c EXCEPT !.buf = Tail(@)]),
                         Append(cb, consume(c, Head(c.buf).content)),
                         nils, failAt)
       ELSE IF nils + 1 = failAt
            THEN [st |-> c, out |-> <<>>,
                  cb |-> cb \o <<consume_nil(c), close(c)>>, closed |-> TRUE]
            ELSE consume_loop(bump_seq([c EXCEPT !.buf = Tail(@)]),
                              Append(cb, consume_nil(c)), nils + 1, failAt)
  ELSE [st |-> c, out |-> <<>>, cb |-> cb, closed |-> FALSE]

try_consume_buffer(c, cb, nils, failAt) == consume_loop(c, cb, nils, failAt)

\* uint8_t heartbeat_interval_ = (tick_interval_type) heartbeat_interval
to_uint8(v) == v % U8

\* handle_handshake that accepts every handshake
handle_handshake_rewind(c, offset, heartbeat_interval, failAt) ==
  try_consume_buffer(
    [c EXCEPT !.next_seq = offset + 1, !.last_seq = offset + 1,
              !.heartbeat_interval = to_uint8(heartbeat_interval)],
    <<>>, 0, failAt)

handle_handshake(c, offset, heartbeat_interval, failAt) ==
  IF offset >= c.next_seq
  THEN try_consume_buffer(
         [c EXCEPT !.next_seq = offset + 1, !.last_seq = offset + 1,
                   !.heartbeat_interval = to_uint8(heartbeat_interval)],
         <<>>, 0, failAt)
  ELSE [st |-> c, out |-> <<>>, cb |-> <<>>, closed |-> FALSE]

handle_heartbeat(c, seq) ==
  IF c.last_seq = 0 \/ seq = 0
  THEN [st |-> c, out |-> <<>>, cb |-> <<>>, closed |-> FALSE]
  ELSE [st |-> [c EXCEPT !.last_seq = IF seq + 1 > @ THEN seq + 1 ELSE @],
        out |-> <<>>, cb |-> <<>>, closed |-> FALSE]

\* index of the first slot with x.seq >= seq, 0 for buf_.end()
find_slot(buf, seq) ==
  LET idx == {i \in 1..Len(buf) : buf[i].seq >= seq}
  IN IF idx = {} THEN 0 ELSE CHOOSE i \in idx : \A j \in idx : i <= j

\* buf_.emplace(i, ...)
emplace(buf, i, x) == SubSeq(buf, 1, i - 1) \o <<x>> \o SubSeq(buf, i, Len(buf))

\* insertion that does not drop duplicates
insert_event_dup(buf, seq, payload) ==
  LET i == find_slot(buf, seq)
  IN IF i = 0 THEN Append(buf, optional_event(seq, payload))
     ELSE emplace(buf, i, optional_event(seq, payload))

insert_event(buf, seq, payload) ==
  LET i == find_slot(buf, seq)
  IN IF i = 0 THEN Append(buf, optional_event(seq, payload))
     ELSE IF buf[i].seq # seq THEN emplace(buf, i, optional_event(seq, payload))
     ELSE IF buf[i].content = None THEN [buf EXCEPT ![i].content = payload]
     ELSE buf

\* handle_event that hands every event it has not seen to the sink at once
handle_event_unbuffered(c, seq, payload, failAt) ==
  IF seq >= c.next_seq
  THEN try_consume_buffer(bump_seq([c EXCEPT !.next_seq = seq]),
                          <<consume(c, payload)>>, 0, failAt)
  ELSE [st |-> c, out |-> <<>>, cb |-> <<>>, closed |-> FALSE]

handle_event(c, seq, payload, failAt) ==
  IF c.next_seq = seq
  THEN try_consume_buffer(bump_seq(c), <<consume(c, payload)>>, 0, failAt)
  ELSE IF seq > c.next_seq
       THEN [st |-> [c EXCEPT !.last_seq = IF seq > @ THEN seq ELSE @,
                              !.buf = insert_event(@, seq, payload)],
             out |-> <<>>, cb |-> <<>>, closed |-> FALSE]
       ELSE [st |-> c, out |-> <<>>, cb |-> <<>>, closed |-> FALSE]

\* insertion of a lost event that takes the place of a buffered payload
insert_nil_overwrite(buf, seq) ==
  LET i == find_slot(buf, seq)
  IN IF i = 0 THEN Append(buf, optional_event(seq, None))
     ELSE IF buf[i].seq # seq THEN emplace(buf, i, optional_event(seq, None))
     ELSE [buf EXCEPT ![i].content = None]

insert_nil(buf, seq) ==
  LET i == find_slot(buf, seq)
  IN IF i = 0 THEN Append(buf, optional_event(seq, None))
     ELSE IF buf[i].seq # seq THEN emplace(buf, i, optional_event(seq, None))
     ELSE buf

\* handle_retransmit_failed that goes on after close
handle_retransmit_failed_on(c, seq, failAt) ==
  IF c.next_seq = seq
  THEN IF failAt = 1
       THEN [try_consume_buffer(bump_seq(c), <<consume_nil(c), close(c)>>,
                                1, failAt) EXCEPT !.closed = TRUE]
       ELSE try_consume_buffer(bump_seq(c), <<consume_nil(c)>>, 1, failAt)
  ELSE IF seq > c.next_seq
       THEN [st |-> [c EXCEPT !.buf = insert_nil(@, seq)],
             out |-> <<>>, cb |-> <<>>, closed |-> FALSE]
       ELSE [st |-> c, out |-> <<>>, cb |-> <<>>, closed |-> FALSE]

handle_retransmit_failed(c, seq, failAt) ==
  IF c.next_seq = seq
  THEN IF failAt = 1
       THEN [st |-> c, out |-> <<>>, cb |-> <<consume_nil(c), close(c)>>,
             closed |-> TRUE]
       ELSE try_consume_buffer(bump_seq(c), <<consume_nil(c)>>, 1, failAt)
  ELSE IF seq > c.next_seq
       THEN [st |-> [c EXCEPT !.buf = insert_nil(@, seq)],
             out |-> <<>>, cb |-> <<>>, closed |-> FALSE]
       ELSE [st |-> c, out |-> <<>>, cb |-> <<>>, closed |-> FALSE]

\* ACK of the next expected instead of the last consumed sequence number
send_ack_next(c) == cumulative_ack(c.next_seq)

send_ack(c) == cumulative_ack(IF c.next_seq > 0 THEN c.next_seq - 1 ELSE 0)

\* the numbers i, i+1, ..., found-1 in a vector
range(i, found) == [k \in 1..(found - i) |-> i + k - 1]

\* The generate lambda of tick, called for each sequence number in founds with
\* its captured counter i: it appends i..found-1 and steps over found.
RECURSIVE generate(_, _, _)
generate(founds, i, seqs) ==
  IF founds = <<>>
  THEN seqs
  ELSE LET found == Head(founds)
       IN generate(Tail(founds), Max(i, found) + 1,
                   IF i < found THEN seqs \o range(i, found) ELSE seqs)

nack_seqs(c) ==
  generate([k \in 1..Len(c.buf) |-> c.buf[k].seq] \o <<c.last_seq>>,
           c.next_seq, <<>>)

ack_due(c) ==
  c.heartbeat_interval > 0 /\ num_ticks(c) % c.heartbeat_interval = 0

\* tick that leaves idle_ticks_ as it is when it sends a NACK
consumer_tick_no_reset(c) ==
  LET progressed == c.next_seq > c.last_tick_seq
      c1 == [c EXCEPT !.last_tick_seq = c.next_seq, !.tick = NextTick(@)]
      c2 == [c1 EXCEPT !.idle_ticks = (@ + 1) % IdleWrap]
  IN IF progressed
     THEN [st |-> [c1 EXCEPT !.idle_ticks = 0],
           out |-> IF ack_due(c1) THEN <<send_ack(c1)>> ELSE <<>>,
           cb |-> <<>>, closed |-> FALSE]
     ELSE IF c2.next_seq < c2.last_seq /\ c2.idle_ticks >= c2.nack_timeout
          THEN [st |-> c2, out |-> <<nack(nack_seqs(c2))>>,
                cb |-> <<>>, closed |-> FALSE]
          ELSE [st |-> c2,
                out |-> IF ack_due(c2) THEN <<send_ack(c2)>> ELSE <<>>,
                cb |-> <<>>, closed |-> FALSE]

consumer_tick(c) ==
  LET progressed == c.next_seq > c.last_tick_seq
      c1 == [c EXCEPT !.last_tick_seq = c.next_seq, !.tick = NextTick(@)]
      c2 == [c1 EXCEPT !.idle_ticks = (@ + 1) % IdleWrap]
  IN IF progressed
     THEN [st |-> [c1 EXCEPT !.idle_ticks = 0],
           out |-> IF ack_due(c1) THEN <<send_ack(c1)>> ELSE <<>>,
           cb |-> <<>>, closed |-> FALSE]
     ELSE IF c2.next_seq < c2.last_seq /\ c2.idle_ticks >= c2.nack_timeout
          THEN [st |-> [c2 EXCEPT !.idle_ticks = 0],
                out |-> <<nack(nack_seqs(c2))>>,
                cb |-> <<>>, closed |-> FALSE]
          ELSE [st |-> c2,
                out |-> IF ack_due(c2) THEN <<send_ack(c2)>> ELSE <<>>,
                cb |-> <<>>, closed |-> FALSE]

(* ======================= host, backend and network ======================= *)

Prod == "producer"

\* The messages a call hands to the backend, as they go onto the network: a
\* unicast to its handle, a broadcast to every consumer with a path.
route_producer(p, out) ==
  UNION {IF out[k].to = All
         THEN {[src |-> Prod, dst |-> p.paths[i].hdl, msg |-> out[k].msg] :
                 i \in 1..Len(p.paths)}
         ELSE {[src |-> Prod, dst |-> out[k].to, msg |-> out[k].msg]} :
         k \in 1..Len(out)}

route_consumer(h, out) ==
  {[src |-> h, dst |-> Prod, msg |-> out[k]] : k \in 1..Len(out)}

\* the member function called last and the handle it was called for
Call(op, hdl) == [op |-> op, hdl |-> hdl]

\* What the backend does with the messages it is given.  Recorder: it keeps
\* the call and the messages, and sends nothing.  Network: the messages go
\* onto a network that holds every message ever sent, so that a message can
\* arrive late, more than once, or never.  Lossy: the network holds
\* MaxInFlight messages at a time; a message leaves it when it is delivered
\* (taken) or lost, and older messages are lost to make room for new ones.
Recorder == [kind |-> "recorder", taken |-> {}]
Network == [kind |-> "network", taken |-> {}]
Lossy == [kind |-> "lossy", taken |-> {}]
Taking(m) == [kind |-> "lossy", taken |-> {m}]

Transmit(msgs, backend) ==
  IF backend.kind = "recorder" THEN net' = net
  ELSE IF backend.kind = "network" THEN net' = net \cup msgs
  ELSE LET all == (net \ backend.taken) \cup msgs
       IN  \E held \in SUBSET all :
             /\ Cardinality(held) = Min(MaxInFlight, Cardinality(all))
             /\ IF Cardinality(msgs) <= MaxInFlight
                THEN msgs \subseteq held
                ELSE held \subseteq msgs
             /\ net' = held

\* A member function of the producer has run with result r.
ProducerStep(r, op, backend) ==
  /\ producer' = r.st
  /\ sent' = IF backend.kind = "recorder" THEN r.out ELSE sent
  /\ called' = IF backend.kind = "recorder" THEN op ELSE called
  /\ Transmit(route_producer(r.st, r.out), backend)
  /\ UNCHANGED <<consumer, closed, log>>

\* A member function of consumer h has run with result r.
ConsumerStep(h, r, op, backend) ==
  /\ consumer' = [consumer EXCEPT ![h] = r.st]
  /\ closed' = [closed EXCEPT ![h] = r.closed]
  /\ log' = [log EXCEPT ![h] = @ \o r.cb]
  /\ sent' = IF backend.kind = "recorder" THEN r.out ELSE sent
  /\ called' = IF backend.kind = "recorder" THEN op ELSE called
  /\ Transmit(route_consumer(h, r.out), backend)
  /\ UNCHANGED producer

(* ---- the host's calls ---- *)

\* limit of a counted call; Unbounded: the calls are not counted
Unbounded == 0 - 1
Within(n, limit) == limit = Unbounded \/ n < limit
Count(n, limit) == IF limit = Unbounded THEN n ELSE n + 1

\* The payloads of the host's produce() calls, in order.  The channel never
\* inspects a payload, so distinct payloads tell every mix-up apart.
HostPayloads == <<"a", "b", "c", "d", "e">>

Produce(backend, limit) ==
  /\ nproduce < limit
  /\ nproduce' = nproduce + 1
  /\ LET content == HostPayloads[Len(produced) + 1]
         r == produce(producer, content)
     IN /\ ProducerStep(r, Call("produce", None), backend)
        /\ produced' = IF r.out = <<>> THEN produced
                       ELSE Append(produced, content)
  /\ UNCHANGED nticks

\* The host registers its consumers in a fixed order (the handles are
\* interchangeable): "h2" only once "h1" has a path.
add_in_order(hdl) == hdl = "h2" => find_path(producer, "h1") # 0

Add(hdl, backend) ==
  /\ add_in_order(hdl)
  /\ ProducerStep(add(producer, hdl), Call("add", hdl), backend)
  /\ UNCHANGED <<produced, nproduce, nticks>>

ProducerTick(backend, limit) ==
  /\ Within(nticks, limit)
  /\ nticks' = Count(nticks, limit)
  /\ ProducerStep(producer_tick(producer), Call("tick", Prod), backend)
  /\ UNCHANGED <<produced, nproduce>>

ConsumerTick(h, backend, limit) ==
  /\ ~closed[h]
  /\ Within(nticks, limit)
  /\ nticks' = Count(nticks, limit)
  /\ ConsumerStep(h, consumer_tick(consumer[h]), Call("tick", h), backend)
  /\ UNCHANGED <<produced, nproduce>>

SetHeartbeatInterval(value) ==
  /\ ProducerStep([st |-> set_heartbeat_interval(producer, value), out |-> <<>>],
                  Call("heartbeat_interval", None), Recorder)
  /\ UNCHANGED <<produced, nproduce, nticks>>

(* ---- messages handled; the backend decodes them into these calls ---- *)

\* the consume_nil call of one member function that returns an error (0: none)
FailAts == 0..2

OnAck(h, seq, backend) ==
  /\ ProducerStep([st |-> handle_ack(producer, h, seq), out |-> <<>>],
                  Call("handle_ack", h), backend)
  /\ UNCHANGED <<produced, nproduce, nticks>>

OnNack(h, seqs, backend) ==
  /\ ProducerStep(handle_nack(producer, h, seqs),
                  Call("handle_nack", h), backend)
  /\ UNCHANGED <<produced, nproduce, nticks>>

OnHandshake(h, offset, hb, backend) ==
  /\ ~closed[h]
  /\ \E failAt \in FailAts :
       ConsumerStep(h, handle_handshake(consumer[h], offset, hb, failAt),
                    Call("handle_handshake", h), backend)
  /\ UNCHANGED <<produced, nproduce, nticks>>

OnEvent(h, seq, payload, backend) ==
  /\ ~closed[h]
  /\ \E failAt \in FailAts :
       ConsumerStep(h, handle_event(consumer[h], seq, payload, failAt),
                    Call("handle_event", h), backend)
  /\ UNCHANGED <<produced, nproduce, nticks>>

OnRetransmitFailed(h, seq, backend) ==
  /\ ~closed[h]
  /\ \E failAt \in FailAts :
       ConsumerStep(h, handle_retransmit_failed(consumer[h], seq, failAt),
                    Call("handle_retransmit_failed", h), backend)
  /\ UNCHANGED <<produced, nproduce, nticks>>

OnHeartbeat(h, seq, backend) ==
  /\ ~closed[h]
  /\ ConsumerStep(h, handle_heartbeat(consumer[h], seq),
                  Call("handle_heartbeat", h), backend)
  /\ UNCHANGED <<produced, nproduce, nticks>>

\* The network hands over a message it holds, in any order.
DeliverAck(m, backend) ==
  m.msg.type = "cumulative_ack" /\ OnAck(m.src, m.msg.seq, backend)
DeliverNack(m, backend) ==
  m.msg.type = "nack" /\ OnNack(m.src, m.msg.seqs, backend)
DeliverHandshake(m, backend) ==
  /\ m.msg.type = "handshake"
  /\ OnHandshake(m.dst, m.msg.first_seq, m.msg.heartbeat_interval, backend)
DeliverEvent(m, backend) ==
  m.msg.type = "event" /\ OnEvent(m.dst, m.msg.seq, m.msg.content, backend)
DeliverRetransmitFailed(m, backend) ==
  m.msg.type = "retransmit_failed" /\ OnRetransmitFailed(m.dst, m.msg.seq, backend)
DeliverHeartbeat(m, backend) ==
  m.msg.type = "heartbeat" /\ OnHeartbeat(m.dst, m.msg.seq, backend)

Deliver(m, backend) ==
  \/ DeliverAck(m, backend)
  \/ DeliverNack(m, backend)
  \/ DeliverHandshake(m, backend)
  \/ DeliverEvent(m, backend)
  \/ DeliverRetransmitFailed(m, backend)
  \/ DeliverHeartbeat(m, backend)

\* The network loses a message it holds.
Lose(m) ==
  /\ net' = net \ {m}
  /\ UNCHANGED <<producer, consumer, closed, log, produced, nproduce, nticks,
                 called, sent>>

(* ------------------- the closed system, two consumers ------------------- *)

Init ==
  /\ \E hb \in HbChoices : producer = producer_init(hb)
  /\ \E nt \in NackTimeouts : consumer = [h \in Handles |-> consumer_init(nt)]
  /\ closed = [h \in Handles |-> FALSE]
  /\ net = {}
  /\ log = [h \in Handles |-> <<>>]
  /\ produced = <<>>
  /\ nproduce = 0
  /\ nticks = 0
  /\ called = Call("init", None)
  /\ sent = <<>>

Next ==
  \/ Produce(Network, MaxProduce)
  \/ \E hdl \in Handles : Add(hdl, Network)
  \/ ProducerTick(Network, MaxTick)
  \/ \E h \in Handles : ConsumerTick(h, Network, MaxTick)
  \/ \E m \in net : Deliver(m, Network)

Spec == Init /\ [][Next]_vars

(* -------------------- the closed system, one consumer ------------------- *)

NextOne ==
  \/ Produce(Network, MaxProduceOne)
  \/ Add("h1", Network)
  \/ ProducerTick(Network, MaxTickOne)
  \/ ConsumerTick("h1", Network, MaxTickOne)
  \/ \E m \in net : Deliver(m, Network)

SpecOne == Init /\ [][NextOne]_vars

(* ------------------------ the producer on its own ----------------------- *)

SeqsIn == 0..MaxSeqIn

\* the nack lists handed to the producer: any list of up to two numbers
NackLists == {<<>>} \cup {<<a>> : a \in SeqsIn} \cup (SeqsIn \X SeqsIn)

NextProducer ==
  \/ Produce(Recorder, MaxProduce)
  \/ \E hdl \in Handles : Add(hdl, Recorder)
  \/ ProducerTick(Recorder, MaxTickProducer)
  \/ \E h \in Handles \cup {Stranger}, seq \in SeqsIn : OnAck(h, seq, Recorder)
  \/ \E h \in Handles \cup {Stranger}, seqs \in NackLists : OnNack(h, seqs, Recorder)

InitProducer == Init /\ \A h \in Handles : consumer[h].nack_timeout = 1

SpecProducer == InitProducer /\ [][NextProducer]_vars

(* ------------- the producer on its own, reconfigured by its host -------- *)

NextReconfigure ==
  \/ Produce(Recorder, MaxProduceReconfigure)
  \/ Add("h1", Recorder)
  \/ ProducerTick(Recorder, MaxTickReconfigure)
  \/ \E value \in HbChoices : SetHeartbeatInterval(value)
  \/ \E h \in {"h1", Stranger}, seq \in SeqsIn : OnAck(h, seq, Recorder)
  \/ \E h \in {"h1", Stranger}, seqs \in NackLists : OnNack(h, seqs, Recorder)

SpecReconfigure == InitProducer /\ [][NextReconfigure]_vars

(* ------------------------ a consumer on its own ------------------------- *)

\* heartbeat intervals in the handshakes handed to the consumer
HbIn == {0, 1, 2, 256, 257}

NextConsumer ==
  \/ ConsumerTick("h1", Recorder, MaxTickIn)
  \/ \E offset \in SeqsIn, hb \in HbIn : OnHandshake("h1", offset, hb, Recorder)
  \/ \E seq \in SeqsIn, payload \in Payloads : OnEvent("h1", seq, payload, Recorder)
  \/ \E seq \in SeqsIn : OnRetransmitFailed("h1", seq, Recorder)
  \/ \E seq \in SeqsIn : OnHeartbeat("h1", seq, Recorder)

InitConsumer == Init /\ producer.heartbeat_interval = 0

SpecConsumer == InitConsumer /\ [][NextConsumer]_vars

(* ------------- the closed system under fair scheduling ------------------ *)

\* One consumer; the hosts keep calling tick(), the network loses messages
\* and hands over, again and again, every kind of message that keeps being
\* sent.
InitLive ==
  /\ Init
  /\ producer.heartbeat_interval = 1
  /\ consumer["h1"].nack_timeout = 1

MessageTypes ==
  {"handshake", "event", "retransmit_failed", "heartbeat", "cumulative_ack",
   "nack"}

DeliverKind(type) ==
  \E m \in net : m.msg.type = type /\ Deliver(m, Taking(m))

\* One timer drives both hosts: the producer's tick(), then the consumer's.
TickBoth(h, backend) ==
  /\ ~closed[h]
  /\ LET p == producer_tick(producer)
         c == consumer_tick(consumer[h])
     IN /\ producer' = p.st
        /\ consumer' = [consumer EXCEPT ![h] = c.st]
        /\ Transmit(route_producer(p.st, p.out) \cup route_consumer(h, c.out),
                    backend)
  /\ UNCHANGED <<closed, log, produced, nproduce, nticks, called, sent>>

NextLive ==
  \/ Produce(Lossy, MaxProduceLive)
  \/ Add("h1", Lossy)
  \/ TickBoth("h1", Lossy)
  \/ \E type \in MessageTypes : DeliverKind(type)
  \/ \E m \in net : Lose(m)

Fairness ==
  /\ WF_vars(TickBoth("h1", Lossy))
  /\ \A type \in MessageTypes : SF_vars(DeliverKind(type))

SpecLive == InitLive /\ [][NextLive]_vars /\ Fairness

(* =============================== claims ================================= *)

\* offset of the path of handle h (h has a path)
OffsetOf(h) == producer.paths[find_path(producer, h)].offset
HasPath(h) == find_path(producer, h) # 0

\* C1: in the closed system, whatever the network loses, repeats or
\* reorders, the k-th sink callback of each consumer h (consume or
\* consume_nil) is for sequence number offset(h)+k, and every consume carries
\* the payload the producer assigned to that sequence number.
C1_DeliveryOrdering ==
  \A h \in Handles :
    \A k \in 1..Len(log[h]) :
      /\ HasPath(h)
      /\ log[h][k].fn \in {"consume", "consume_nil"}
      /\ log[h][k].seq = OffsetOf(h) + k
      /\ log[h][k].fn = "consume" =>
           /\ log[h][k].seq \in 1..Len(produced)
           /\ log[h][k].content = produced[log[h][k].seq]

\* Both consumers were handed events: "h1" from sequence number 1, "h2", added
\* after the first event, from sequence number 2.
C1_Witness ==
  /\ HasPath("h2") /\ OffsetOf("h2") = 1
  /\ Len(log["h2"]) = 1 /\ Len(log["h1"]) = 2
  /\ log["h2"][1].content = "b"

\* the sink of consumer h was handed the payload of sequence number s
Consumed(h, s) ==
  \E k \in 1..Len(log[h]) : log[h][k].fn = "consume" /\ log[h][k].seq = s

\* C2: with heartbeats on, tick() called again and again on both sides, and a
\* network that keeps handing over every kind of message that keeps being
\* sent, every event produced after add(h) is eventually passed to the sink of
\* consumer h.
C2_EventuallyConsumed ==
  \A s \in 1..MaxProduceLive :
    (HasPath("h1") /\ OffsetOf("h1") < s /\ Len(produced) >= s)
      ~> Consumed("h1", s)

\* the smallest acked of the paths (there is a path)
MinAcked ==
  LET a == {producer.paths[i].acked : i \in 1..Len(producer.paths)}
  IN CHOOSE x \in a : \A y \in a : x <= y

\* the events lo+1..hi as the host produced them
EventsIn(lo, hi) == [k \in 1..(hi - lo) |-> event(lo + k, produced[lo + k])]

\* C3: the producer's buf holds exactly the events with sequence numbers in
\* (smallest acked of all paths, seq], in increasing order and with the
\* payloads the host produced; so its front is the smallest acked plus one,
\* and it is empty once every path has acknowledged seq.
C3_BufferContents ==
  /\ producer.seq = Len(produced)
  /\ IF producer.paths = <<>>
     THEN producer.buf = <<>>
     ELSE /\ MinAcked <= producer.seq
          /\ producer.buf = EventsIn(MinAcked, producer.seq)

\* Two paths with different acknowledgements: the event only one of them has
\* acknowledged stays in buf, the one both have acknowledged is gone.
C3_Witness ==
  /\ Len(producer.paths) = 2
  /\ producer.paths[1].acked = 2
  /\ producer.paths[2].offset = 0
  /\ producer.paths[2].acked = 1
  /\ producer.buf = <<event(2, "b")>>

\* C5: in the closed system every path satisfies offset <= acked <= seq.
C5_AckedInRange ==
  \A i \in 1..Len(producer.paths) :
    /\ producer.paths[i].offset <= producer.paths[i].acked
    /\ producer.paths[i].acked <= producer.seq

\* A path added after the first event whose consumer has acknowledged the
\* second, next to a path whose consumer lags behind.
C5_Witness ==
  /\ Len(producer.paths) = 2
  /\ producer.paths[2].offset = 1
  /\ producer.paths[2].acked = 2
  /\ producer.paths[1].acked < producer.seq

\* the path of handle h (h has a path)
PathOf(h) == producer.paths[find_path(producer, h)]

\* handle_ack(h, s) on the producer as it is: s below the path's acked changes
\* nothing; s equal to it changes last_acked of that path and nothing else.
StaleAckFrame ==
  \A h \in Handles : \A s \in 0..MaxSeqIn :
    HasPath(h) =>
      LET i == find_path(producer, h)
          q == handle_ack(producer, h, s)
      IN /\ s < PathOf(h).acked => q = producer
         /\ s = PathOf(h).acked =>
              q = [producer EXCEPT !.paths[i].last_acked = producer.tick]

\* no step removes a path or lowers its acked
AckedGrows ==
  /\ Len(producer'.paths) >= Len(producer.paths)
  /\ \A i \in 1..Len(producer.paths) :
       /\ producer'.paths[i].hdl = producer.paths[i].hdl
       /\ producer'.paths[i].acked >= producer.paths[i].acked

\* C4: for every path, acked never decreases under any sequence of produce,
\* add, handle_ack, handle_nack and tick; handle_ack(h, s) with s < acked
\* changes neither the path nor buf, and with s = acked it changes only
\* last_acked of that path.
C4_AckMonotone == [][AckedGrows]_vars /\ []StaleAckFrame

\* handle_ack has run for an ACK the path had seen before, at a later tick:
\* only last_acked moved.
C4_Witness ==
  /\ called = Call("handle_ack", "h1")
  /\ HasPath("h1")
  /\ PathOf("h1").acked = 1
  /\ PathOf("h1").first_acked = LamportInit
  /\ PathOf("h1").last_acked = LamportInit + 1
  /\ producer.buf # <<>>

\* the sequence numbers in [next_seq, last_seq) without a slot in buf, ascending
Missing(c) ==
  SelectSeq(range(c.next_seq, c.last_seq),
            LAMBDA s : \A k \in 1..Len(c.buf) : c.buf[k].seq # s)

\* C6: whenever a consumer's tick() emits a nack, its list is exactly the
\* ascending list of the sequence numbers s with next_seq <= s < last_seq for
\* which buf holds no slot.
C6_NackCompleteness ==
  \A h \in Handles :
    LET r == consumer_tick(consumer[h])
    IN (r.out # <<>> /\ r.out[1].type = "nack") =>
         r.out[1].seqs = Missing(consumer[h])

\* C7: for every consumer state and every event (s, payload), handle_event
\* called a second time changes nothing (next_seq, last_seq, buf and every
\* other member stay as the first call left them) and calls the sink no more.
C7_HandleEventIdempotent ==
  \A s \in 0..MaxSeqIn : \A payload \in Payloads : \A f1, f2 \in FailAts :
    LET once == handle_event(consumer["h1"], s, payload, f1)
        twice == handle_event(once.st, s, payload, f2)
    IN /\ twice.st = once.st
       /\ twice.cb = <<>>
       /\ twice.out = <<>>

\* handle_event has run on a consumer that is past its handshake: the event
\* it was waiting for came after the next one, and both went to the sink.
C7_Witness ==
  /\ called = Call("handle_event", "h1")
  /\ consumer["h1"].next_seq = 3
  /\ consumer["h1"].buf = <<>>
  /\ Len(log["h1"]) = 2
  /\ log["h1"][1].seq = 1
  /\ log["h1"][2].seq = 2

\* C8: in a producer with heartbeat_interval = k > 0 and no produce calls, the
\* n-th tick() call broadcasts a heartbeat if and only if n is a multiple of
\* k, and the heartbeat carries the producer's seq.  (producer.tick counts the
\* tick() calls from LamportInit, so the next call is number
\* producer.tick - LamportInit + 1.)
C8_HeartbeatCadence ==
  (nproduce = 0 /\ producer.heartbeat_interval > 0) =>
    LET n == producer.tick - LamportInit + 1
    IN producer_tick(producer).out =
         IF n % producer.heartbeat_interval = 0
         THEN <<broadcast(heartbeat(producer.seq))>>
         ELSE <<>>

\* k = 2 and three tick() calls so far: the second broadcast a heartbeat to
\* the consumer, the third did not, the fourth will.
C8_Witness ==
  /\ nproduce = 0
  /\ producer.heartbeat_interval = 2
  /\ producer.tick = LamportInit + 3
  /\ producer.last_broadcast = LamportInit + 2
  /\ [src |-> Prod, dst |-> "h1", msg |-> heartbeat(0)] \in net

\* C9: handle_nack(h, seqs) for a known handle h with seqs[0] = 0 sends one
\* handshake{offset of h's path, heartbeat_interval} to h and nothing else,
\* and leaves seq, buf and every path unchanged, whatever else seqs lists.
C9_ReHandshake ==
  \A h \in Handles : \A seqs \in NackLists :
    (HasPath(h) /\ seqs # <<>> /\ seqs[1] = 0) =>
      handle_nack(producer, h, seqs) =
        [st |-> producer,
         out |-> <<send(h, handshake(PathOf(h).offset,
                                     producer.heartbeat_interval))>>]

\* handle_nack has run for "h2", whose path starts after the first event and
\* has acknowledged the second: the handshake sent names the offset.
C9_Witness ==
  /\ called = Call("handle_nack", "h2")
  /\ HasPath("h2")
  /\ PathOf("h2").offset = 1
  /\ PathOf("h2").acked = 2
  /\ sent = <<send("h2", handshake(1, producer.heartbeat_interval))>>

\* a tick() of consumer h on a consumer without handshake state sends nack{[0]}
NackZeroOnTick(h) ==
  (consumer[h].next_seq = 0 /\ consumer'[h].tick # consumer[h].tick) =>
    [src |-> h, dst |-> Prod, msg |-> nack(<<0>>)] \in net'

\* the handshake handled by a consumer without handshake state leaves it at
\* the path's offset plus one
ResumeAtOffset(h) ==
  (consumer[h].next_seq = 0 /\ consumer'[h].next_seq # 0) =>
    consumer'[h].next_seq = OffsetOf(h) + 1

\* C10: a consumer with a path that holds no handshake state (next_seq = 0)
\* sends nack{[0]} on its next tick(); once it has handled the producer's
\* handshake{offset, hb} it has next_seq = offset + 1.
C10_Resynchronise ==
  [][HasPath("h1") => (NackZeroOnTick("h1") /\ ResumeAtOffset("h1"))]_vars

\* the callbacks a step adds to the log of consumer h
NewCallbacks(h) == SubSeq(log'[h], Len(log[h]) + 1, Len(log'[h]))

\* The member function that calls close: close comes right after the
\* consume_nil that returned the error, it is the last callback and the only
\* close, nothing is sent, and next_seq stays at the lost event.
CloseIsLast(h) ==
  (closed'[h] /\ ~closed[h]) =>
    LET cb == NewCallbacks(h)
    IN /\ Len(cb) >= 2
       /\ cb[Len(cb)].fn = "close"
       /\ cb[Len(cb) - 1].fn = "consume_nil"
       /\ \A k \in 1..(Len(cb) - 1) : cb[k].fn # "close"
       /\ sent' = <<>>
       /\ consumer'[h].next_seq = cb[Len(cb)].seq

\* C11 (as the code has it): the member function that calls close makes no
\* further consume, consume_nil, send or close callback and no further state
\* transition after it.
C11_CloseEndsTheCall == [][CloseIsLast("h1")]_vars

\* handle_event handed event 1 to the sink and then met the lost event 2 in
\* buf, whose consume_nil returned an error.
C11_Witness ==
  /\ closed["h1"]
  /\ called = Call("handle_event", "h1")
  /\ Len(log["h1"]) = 3
  /\ log["h1"][1] = [fn |-> "consume", seq |-> 1, content |-> "a"]
  /\ log["h1"][2].fn = "consume_nil" /\ log["h1"][2].seq = 2
  /\ log["h1"][3].fn = "close"

\* C11 (as stated): a consumer that has called close makes no callback and no
\* state transition whatever operation is invoked on it afterwards.
C11_NoCallbackAfterClose ==
  closed["h1"] =>
    \A s \in SeqsIn : \A payload \in Payloads :
      LET r == handle_event(consumer["h1"], s, payload, 0)
      IN r.cb = <<>> /\ r.out = <<>> /\ r.st = consumer["h1"]

\* what a step that ran add(h) did to the producer and handed to the backend
AddEffect(h) ==
  called' = Call("add", h) =>
    IF HasPath(h)
    THEN producer' = producer /\ sent' = <<>>
    ELSE /\ producer' =
              [producer EXCEPT !.paths =
                 Append(@, [hdl |-> h, offset |-> producer.seq,
                            acked |-> producer.seq,
                            first_acked |-> LamportInit,
                            last_acked |-> LamportInit])]
         /\ sent' = <<send(h, handshake(producer.seq,
                                        producer.heartbeat_interval))>>

\* the error add(h) returns
AddError ==
  \A h \in Handles :
    add(producer, h).err = IF HasPath(h) THEN "consumer_exists" ELSE "nil"

DistinctHandles ==
  \A i, j \in 1..Len(producer.paths) :
    producer.paths[i].hdl = producer.paths[j].hdl => i = j

\* C12: add(h) for a handle that has a path returns consumer_exists, sends no
\* handshake and leaves the producer unchanged, so the handles in paths are
\* pairwise distinct; add(h) for a new handle appends a path with
\* offset = acked = seq and unicasts handshake{seq, heartbeat_interval} to h.
C12_Add ==
  /\ [][\A h \in Handles : AddEffect(h)]_vars
  /\ [](AddError /\ DistinctHandles)

\* add("h2") was called a second time, after "h2" had got its path at seq 1
\* and another event had been produced: nothing was sent.
C12_Witness ==
  /\ called = Call("add", "h2")
  /\ sent = <<>>
  /\ Len(producer.paths) = 2
  /\ producer.paths[2] = [hdl |-> "h2", offset |-> 1, acked |-> 1,
                          first_acked |-> LamportInit,
                          last_acked |-> LamportInit]
  /\ producer.seq = 2

\* the result of a member function of the consumer that ignores its input
Ignored(c) == [st |-> c, out |-> <<>>, cb |-> <<>>, closed |-> FALSE]

\* handle_handshake with an offset below next_seq, on the consumer as it is
LateHandshakeIgnored ==
  \A offset \in SeqsIn : \A hb \in HbIn : \A failAt \in FailAts :
    offset < consumer["h1"].next_seq =>
      handle_handshake(consumer["h1"], offset, hb, failAt)
        = Ignored(consumer["h1"])

\* C13: a consumer's next_seq never decreases under any sequence of
\* handle_handshake, handle_event, handle_heartbeat, handle_retransmit_failed
\* and tick, and handle_handshake(offset, hb) with offset < next_seq leaves the
\* whole consumer unchanged and calls nothing.
C13_NeverRewinds ==
  /\ [][consumer'["h1"].next_seq >= consumer["h1"].next_seq]_vars
  /\ []LateHandshakeIgnored

\* A handshake came after the consumer had handed events 1 and 2 to the sink
\* and ticked: it changed nothing.
C13_Witness ==
  /\ called = Call("handle_handshake", "h1")
  /\ consumer["h1"].next_seq = 3
  /\ consumer["h1"].last_tick_seq = 3
  /\ Len(log["h1"]) = 2

\* a message of a consumer that acknowledges: a cumulative_ack, or a nack
\* whose first element is above 0
IsAck(m) ==
  /\ m.src \in Handles
  /\ \/ m.msg.type = "cumulative_ack"
     \/ m.msg.type = "nack" /\ m.msg.seqs # <<>> /\ m.msg.seqs[1] > 0

\* the sequence number it acknowledges
AckOf(m) ==
  IF m.msg.type = "cumulative_ack" THEN m.msg.seq ELSE m.msg.seqs[1] - 1

\* consumer h has passed sequence number s to its sink
Passed(h, s) ==
  \E k \in 1..Len(log[h]) :
    log[h][k].seq = s /\ log[h][k].fn \in {"consume", "consume_nil"}

\* the cumulative_ack a tick() of h sends carries next_seq - 1
AckValue(h) ==
  LET r == consumer_tick(consumer[h])
  IN \A k \in 1..Len(r.out) :
       r.out[k].type = "cumulative_ack" =>
         /\ consumer[h].next_seq >= 1
         /\ r.out[k].seq = consumer[h].next_seq - 1

\* C14: whenever a consumer has sent cumulative_ack{s}, or a nack whose first
\* element f > 0 (an ACK of s = f-1), it has accepted a handshake and has
\* passed every sequence number in (offset, s] to its sink; the value of a
\* cumulative_ack is next_seq - 1.
C14_AckOnlyWhatWasPassed ==
  /\ \A m \in net :
       IsAck(m) =>
         /\ HasPath(m.src)
         /\ consumer[m.src].next_seq >= 1
         /\ AckOf(m) < consumer[m.src].next_seq
         /\ \A s \in (OffsetOf(m.src) + 1)..AckOf(m) : Passed(m.src, s)
  /\ \A h \in Handles : AckValue(h)

\* The consumer has acknowledged event 1 in a cumulative_ack and again in a
\* nack that asks for event 2.
C14_Witness ==
  /\ [src |-> "h1", dst |-> Prod, msg |-> cumulative_ack(1)] \in net
  /\ [src |-> "h1", dst |-> Prod, msg |-> nack(<<2>>)] \in net

\* what a step that ran produce(payload) did to the producer and handed to
\* the backend; the payload is the host's next one
ProduceEffect ==
  (called' = Call("produce", None) /\ nproduce' # nproduce) =>
    LET ev == event(producer.seq + 1, HostPayloads[Len(produced) + 1])
    IN IF producer.paths = <<>>
       THEN producer' = producer /\ sent' = <<>>
       ELSE /\ producer' = [producer EXCEPT !.seq = producer.seq + 1,
                                            !.buf = Append(producer.buf, ev),
                                            !.last_broadcast = producer.tick]
            /\ sent' = <<broadcast(ev)>>

\* the events broadcast so far carry 1, 2, ... without a gap
NoGaps ==
  /\ producer.seq = Len(produced)
  /\ \A k \in 1..Len(producer.buf) :
       producer.buf[k].seq = producer.seq - Len(producer.buf) + k

\* C15: produce(payload) on a producer without a path changes nothing and
\* broadcasts nothing; with a path it increments seq by one, appends
\* event{seq, payload} to buf, sets last_broadcast to the current tick and
\* broadcasts that event once; so the first event carries 1 and the numbers
\* have no gaps.
C15_Produce == [][ProduceEffect]_vars /\ []NoGaps

\* The host's first produce was dropped for want of a consumer; its second,
\* after add and a tick, was broadcast as event 1.
C15_Witness ==
  /\ called = Call("produce", None)
  /\ nproduce = 2
  /\ producer.seq = 1
  /\ producer.last_broadcast = LamportInit + 1
  /\ sent = <<broadcast(event(1, "a"))>>

\* event s is in the producer's buf
InBuf(s) == find_event(producer, s) # 0

\* every event a registered consumer has yet to pass to its sink is in buf
NeededIsKept ==
  \A h \in Handles :
    HasPath(h) =>
      \A s \in (OffsetOf(h) + 1)..producer.seq :
        consumer[h].next_seq <= s => InBuf(s)

\* a retransmit_failed only ever goes to a consumer that is past its event
NoNeededFails ==
  \A m \in net :
    m.msg.type = "retransmit_failed" =>
      consumer[m.dst].next_seq > m.msg.seq

NoConsumeNil ==
  \A h \in Handles : \A k \in 1..Len(log[h]) : log[h][k].fn = "consume"

\* C16: in the closed system the producer never evicts an event that a
\* registered consumer has not yet passed to its sink; so it never sends
\* retransmit_failed{s} to a consumer that still needs s, and consume_nil is
\* never called.
C16_NeverEvictsNeeded == NeededIsKept /\ NoNeededFails /\ NoConsumeNil

\* The producer has answered a late nack for event 1 with retransmit_failed{1}:
\* the consumer had got the event in the meantime and acknowledged it.
C16_Witness ==
  /\ [src |-> Prod, dst |-> "h1", msg |-> retransmit_failed(1)] \in net
  /\ consumer["h1"].next_seq = 3
  /\ producer.buf = <<>>

\* what handle_nack(h, seqs) sends for the element s once buf is trimmed to q
Answer(q, s) ==
  IF \E i \in 1..Len(q.buf) : q.buf[i].seq = s
  THEN event(s, produced[s])
  ELSE retransmit_failed(s)

\* C17: handle_nack(h, seqs) with a known handle and seqs[0] > 0 has the
\* effect of handle_ack(h, seqs[0]-1) on the producer and then sends to h, and
\* to nobody else, one message per element s of seqs in list order: event{s}
\* with its payload if s is in buf after the trim, retransmit_failed{s} if
\* not.  With empty seqs or an unknown handle it changes nothing and sends
\* nothing.
C17_Retransmit ==
  \A h \in Handles \cup {Stranger} : \A seqs \in NackLists :
    LET r == handle_nack(producer, h, seqs)
    IN /\ (seqs = <<>> \/ ~HasPath(h)) => r = [st |-> producer, out |-> <<>>]
       /\ (seqs # <<>> /\ HasPath(h) /\ seqs[1] > 0) =>
            /\ r.st = handle_ack(producer, h, seqs[1] - 1)
            /\ Len(r.out) = Len(seqs)
            /\ \A k \in 1..Len(seqs) :
                 r.out[k] = [to |-> h, msg |-> Answer(r.st, seqs[k])]

\* handle_nack has run for the list [1, 2] after event 1 had been
\* acknowledged and dropped: retransmit_failed{1}, then event 2.
C17_Witness ==
  /\ called = Call("handle_nack", "h1")
  /\ sent = <<send("h1", retransmit_failed(1)), send("h1", event(2, "b"))>>
  /\ producer.buf = <<event(2, "b")>>

\* the step is a tick() of consumer h
IsTick(h) == consumer'[h].tick # consumer[h].tick

\* the messages of the given type in what the step handed to the backend
SentOf(type) == SelectSeq(sent', LAMBDA m : m.type = type)

\* A tick() sends a nack exactly when next_seq has not advanced since the
\* tick before, next_seq < last_seq, and with this tick idle_ticks reaches
\* nack_timeout; the nack is then all it sends, and idle_ticks is 0 after it.
NackOnTick(h) ==
  IsTick(h) =>
    LET c == consumer[h]
        due == /\ ~(c.next_seq > c.last_tick_seq)
               /\ c.next_seq < c.last_seq
               /\ c.idle_ticks + 1 >= c.nack_timeout
    IN /\ (SentOf("nack") # <<>>) <=> due
       /\ due => /\ Len(sent') = 1
                 /\ consumer'[h].idle_ticks = 0
       /\ (~due /\ ~(c.next_seq > c.last_tick_seq)) =>
            consumer'[h].idle_ticks = c.idle_ticks + 1
       /\ c.next_seq > c.last_tick_seq => consumer'[h].idle_ticks = 0

HasAck(out) == \E k \in 1..Len(out) : out[k].type = "cumulative_ack"
HasNack(out) == \E k \in 1..Len(out) : out[k].type = "nack"

\* C19: after accepting a handshake with heartbeat interval hb > 0, a
\* consumer's tick() sends a cumulative_ack if the running count of tick()
\* calls is a multiple of hb and the tick emits no nack, and on no other tick;
\* with hb = 0 it never sends one.  Here: the tick() that follows the
\* handshake, from every reachable consumer state.
C19_AckCadence ==
  \A offset \in SeqsIn : \A hb \in HbIn :
    offset >= consumer["h1"].next_seq =>
      LET c == handle_handshake(consumer["h1"], offset, hb, 0).st
          r == consumer_tick(c)
          n == c.tick - LamportInit + 1
      IN HasAck(r.out) <=> (hb > 0 /\ n % hb = 0 /\ ~HasNack(r.out))

\* C20: a consumer's last_seq never decreases, in any arrival order of
\* handshakes, events, heartbeats and retransmit_failed and under any ticks,
\* and next_seq <= last_seq holds in every reachable state.
C20_LastSeqGrows ==
  /\ [][\A h \in Handles : consumer'[h].last_seq >= consumer[h].last_seq]_vars
  /\ [](\A h \in Handles : consumer[h].next_seq <= consumer[h].last_seq)

\* the slots of consumer h ascend strictly in seq
BufAscends(h) ==
  \A i, j \in 1..Len(consumer[h].buf) :
    i < j => consumer[h].buf[i].seq < consumer[h].buf[j].seq

\* every slot of consumer h is at or above next_seq
BufAboveNext(h) ==
  \A i \in 1..Len(consumer[h].buf) :
    consumer[h].buf[i].seq >= consumer[h].next_seq

\* every slot of consumer h is at or below last_seq
BufBelowLast(h) ==
  \A i \in 1..Len(consumer[h].buf) :
    consumer[h].buf[i].seq <= consumer[h].last_seq

\* C21: in every reachable consumer state buf ascends strictly in seq (so it
\* holds at most one slot per sequence number), every slot has
\* seq >= next_seq, and every slot has seq <= last_seq.
C21_BufWindow ==
  \A h \in Handles : BufAscends(h) /\ BufAboveNext(h) /\ BufBelowLast(h)

\* C22: handle_heartbeat(s) on a consumer that has accepted no handshake
\* (next_seq = 0), or with s = 0, leaves the consumer unchanged whatever
\* events it received before; after a handshake, handle_heartbeat(s) with
\* s > 0 sets last_seq to max(last_seq, s+1) and changes nothing else.
C22_HeartbeatFrame ==
  \A h \in Handles : \A s \in SeqsIn :
    LET c == consumer[h]
        r == handle_heartbeat(c, s)
    IN /\ (c.next_seq = 0 \/ s = 0) => r = Ignored(c)
       /\ (c.next_seq > 0 /\ s > 0) =>
            r = Ignored([c EXCEPT !.last_seq = Max(c.last_seq, s + 1)])

\* the content of the slot of c at s, None for a known-lost slot; Absent for
\* no slot
Absent == "absent"
SlotAt(c, s) ==
  LET idx == {i \in 1..Len(c.buf) : c.buf[i].seq = s}
  IN IF idx = {} THEN Absent ELSE c.buf[CHOOSE i \in idx : TRUE].content

\* event{s, p} and retransmit_failed{s} on consumer c, in both orders
EventThenFailed(c, s, p) ==
  handle_retransmit_failed(handle_event(c, s, p, 0).st, s, 0)
FailedThenEvent(c, s, p) ==
  handle_event(handle_retransmit_failed(c, s, 0).st, s, p, 0)

\* Both orders end in the same state with a payload at s: p, or the payload
\* buf held at s before; and no callback is made on the way.
Commute(c, s, p) ==
  LET a == EventThenFailed(c, s, p)
      b == FailedThenEvent(c, s, p)
  IN /\ a = b
     /\ a.cb = <<>> /\ a.out = <<>> /\ ~a.closed
     /\ handle_event(c, s, p, 0).cb = <<>>
     /\ handle_retransmit_failed(c, s, 0).cb = <<>>
     /\ SlotAt(a.st, s) = IF SlotAt(c, s) \in {Absent, None} THEN p
                          ELSE SlotAt(c, s)

\* a payload in buf stays where it is until it goes to the sink through consume
PayloadKept(h) ==
  \A i \in 1..Len(consumer[h].buf) :
    LET x == consumer[h].buf[i]
    IN x.content # None =>
         \/ \E j \in 1..Len(consumer'[h].buf) : consumer'[h].buf[j] = x
         \/ \E k \in 1..Len(NewCallbacks(h)) :
              NewCallbacks(h)[k] =
                [fn |-> "consume", seq |-> x.seq, content |-> x.content]

\* C23: for s > next_seq, event{s, p} and retransmit_failed{s} commute:
\* handle_retransmit_failed(s) never removes or replaces a payload buffered at
\* s and handle_event(s, p) fills a known-lost slot at s, so either order ends
\* in the same state, with a payload at s that goes to the sink through
\* consume and not through consume_nil.
C23_EventAndFailedCommute ==
  /\ [](\A s \in SeqsIn : \A p \in Payloads :
          s > consumer["h1"].next_seq => Commute(consumer["h1"], s, p))
  /\ [][PayloadKept("h1")]_vars

\* retransmit_failed{2} has been handled by a consumer that waits for event 1
\* and holds the payload of event 2: the payload is still there.
C23_Witness ==
  /\ called = Call("handle_retransmit_failed", "h1")
  /\ consumer["h1"].next_seq = 1
  /\ consumer["h1"].buf = <<optional_event(2, "a")>>
  /\ log["h1"] = <<>>

\* the producer after n more tick() calls
RECURSIVE TickN(_, _)
TickN(p, n) == IF n = 0 THEN p ELSE TickN(producer_tick(p).st, n - 1)

\* one of the next k tick() calls broadcasts a heartbeat
HeartbeatWithin(p, k) ==
  \E n \in 1..k : producer_tick(TickN(p, n - 1)).out # <<>>

\* C24: whenever heartbeat_interval = k > 0, tick - last_broadcast < k, and no
\* k consecutive tick() calls pass without a broadcast, under any sequence of
\* produce, add, handle_ack, handle_nack, tick and heartbeat_interval(value).
C24_HeartbeatBound ==
  producer.heartbeat_interval > 0 =>
    /\ producer.tick - producer.last_broadcast < producer.heartbeat_interval
    /\ HeartbeatWithin(producer, producer.heartbeat_interval)

\* C25: with heartbeats on, tick() called again and again on both sides and a
\* network that keeps handing over every kind of message that keeps being
\* sent, once the producer has stopped producing every path reaches
\* acked = seq, buf is empty and idle() is true, and it stays so.
C25_EventuallyIdle == <>[](idle(producer) /\ producer.buf = <<>>)

\* the handles without a path
Unregistered == {h \in Handles \cup {Stranger} : ~HasPath(h)}

\* C26: in every reachable producer state handle_ack(h, s) for a handle h
\* without a path leaves seq, buf and all paths unchanged for every s, below,
\* at and above seq; so the ACK of an unregistered sender evicts no event that
\* a registered consumer has not acknowledged.
C26_UnknownAckFrame ==
  \A h \in Unregistered : \A s \in SeqsIn \cup {producer.seq + 1} :
    LET q == handle_ack(producer, h, s)
    IN /\ q = producer
       /\ \A i \in 1..Len(producer.paths) :
            \A n \in (producer.paths[i].acked + 1)..producer.seq :
              \E k \in 1..Len(q.buf) : q.buf[k].seq = n

\* Two registered consumers, one of which has acknowledged event 1, and two
\* events in buf: an ACK of 2 from a third sender would name both.
C26_Witness ==
  /\ Len(producer.paths) = 2
  /\ producer.paths[1].acked = 0
  /\ producer.paths[2].offset = 0
  /\ producer.paths[2].acked = 1
  /\ producer.seq = 2
  /\ producer.buf = <<event(1, "a"), event(2, "b")>>

\* C27: a consumer that accepts handshake{offset, hb} has heartbeat_interval
\* equal to hb afterwards, for every hb of the 16-bit tick-interval type; so
\* hb > 0 never becomes 0 on the consumer.
C27_HeartbeatIntervalKept ==
  \A offset \in SeqsIn : \A hb \in HbIn :
    offset >= consumer["h1"].next_seq =>
      LET c == handle_handshake(consumer["h1"], offset, hb, 0).st
      IN /\ c.heartbeat_interval = hb
         /\ hb > 0 => c.heartbeat_interval > 0

====
